---- MODULE Spec2Model ----
(***************************************************************************)
(* sockr: a real-time messaging relay.                                     *)
(*                                                                         *)
(* Server side: the connection registry (ConnectionManager), the session   *)
(* handle (Connection), the Auth / Presence / Message plugins and the      *)
(* SocketServer connection handler.                                        *)
(* Client side: the connection state machine (ConnectionManager) and the   *)
(* SocketClient orchestrator with its reconnection timer.                  *)
(*                                                                         *)
(* Spec          : the server, driven by transport events, handshakes and  *)
(*                 send_message requests (NamedSpec: non-empty user ids).  *)
(* PresenceSpec  : the server's session lifecycle with or without the      *)
(*                 presence plugin.                                        *)
(* MessagingSpec : the server with send_message and typing requests.       *)
(* ClientSpec    : one SocketClient, driven by the application, the        *)
(*                 transport and the reconnect timer (UnattendedSpec: the  *)
(*                 application never calls connect() or disconnect()).     *)
(* TypingSpec    : typing indicators on the server and on the client.      *)
(***************************************************************************)
EXTENDS Integers, Sequences, FiniteSets, TLC

(***************************************************************************)
(* Bounds of the model.                                                    *)
(***************************************************************************)
\* transport connections the server accepts during one run
NumSockets == 2
\* transports one SocketClient creates during one run
MaxTransports == 4
\* the configured reconnectionAttempts of the modelled client
MaxReconnectAttempts == 2
\* the longest list of user ids one get_online_status request carries
MaxIds == 2
\* the most handlers subscribed to one event name at a time
MaxHandlers == 3

(***************************************************************************)
(* Values.                                                                 *)
(***************************************************************************)
\* JavaScript null / undefined where a string is expected
Null == "<null>"
\* no Connection (undefined) / no socket
NoSid == 0
\* socket.id values handed out by the transport, never reused
SocketIds == 1..NumSockets
\* User.id values the injected validator can return; "" is a legal string
UserIds == {"", "alice", "bob"}
\* values randomUUID() can return (0 stands for "no messageId")
Uuids == {1, 2}
\* the port listen() uses when neither the call nor the config gives one
DefaultPort == 3000
\* the ports a call or the config can give; 0 stands for none
Ports == {0, 8080}
\* config.reconnectionDelay, in milliseconds (the default)
ReconnectionDelay == 1000
\* send_message contents
Contents == {"hi"}
\* results of the injected validator: a user (by id), null, or a thrown error
ValidatorNull == "<validator:null>"
ValidatorThrows == "<validator:throws>"
ValidatorResults == UserIds \cup {ValidatorNull, ValidatorThrows}
\* the value Date.now() returns when the authentication handler stamps a user
Now == "<Date.now()>"
\* Connection.user before authenticate()
NoUser == [id |-> Null, socketId |-> NoSid, connectedAt |-> Null]
\* the two typing requests
\* the lists of user ids a request can carry
IdLists == UNION {[1..n -> UserIds] : n \in 0..MaxIds}
\* the event names the application subscribes to and publishes
EventNames == {"connect", "message"}
\* the argument of a published event
Payloads == Contents \cup {Null}
\* the values of ConnectionState
ConnectionStates == {"disconnected", "connecting", "connected", "authenticated",
                     "error", "reconnecting"}
TypingEvents == {"typing_start", "typing_stop"}

VARIABLES
    \* ---- server ----
    connections,     \* ConnectionManager.connections : socket id -> Connection
    userSockets,     \* ConnectionManager.userSockets : user id -> socket id
    closed,          \* socket ids whose transport has disconnected
    pendingAuth,     \* sockets whose authenticate handler awaits the validator
    presencePlugin,  \* SocketServer.presencePlugin is set (usePresence() was called)
    emitted,         \* events the server emitted during the last step, in order
    lastOp,          \* the request / transport event processed by the last step
    server,          \* SocketServer: io, httpServer, isOwnServer and the HTTP server
    \* ---- client ----
    state,           \* ConnectionManager.state
    reconnectAttempts, \* ConnectionManager.reconnectAttempts
    userId,          \* SocketClient.userId
    reconnectTimer,  \* SocketClient.reconnectTimer: "null", "pending" or "fired"
    socket,          \* SocketClient.socket: index into transports, or NoSid
    transports,      \* every socket io() returned, with the listeners attached
    reconnection,    \* config.reconnection
    published,       \* events published to the application during the last step
    sent,            \* requests put on this.socket during the last step
    thrown,          \* the error the last call threw to its caller, or Null
    clientOp,        \* the call / event processed by the last client step
    terminal,        \* disconnect() returned and connect() was not called since
    retries,         \* reconnect-timer connects since the last open or disconnect()
    everOpened,      \* some transport of this client has opened
    listeners,       \* ConnectionManager.listeners, in insertion order
    events,          \* EventEmitter.events : event name -> handlers, in order
    called,          \* the listener / handler calls made during the last step
    returned,        \* the value the last call returned to its caller, or Null
    timers,          \* reconnect timeouts set and neither fired nor cleared
    timerDelay,      \* the delay of the live reconnect timeout, 0 without one
    dropped          \* the listeners the last reset() removed, not added since

serverVars == <<connections, userSockets, closed, pendingAuth, presencePlugin,
                emitted, lastOp, server>>
\* the client's variables but the value returned by the last call
clientFields == <<state, reconnectAttempts, userId, reconnectTimer, socket,
                  transports, reconnection, published, sent, thrown, clientOp,
                  terminal, retries, everOpened, listeners, events, called,
                  timers, timerDelay, dropped>>
clientVars == <<clientFields, returned>>
vars == <<serverVars, clientVars>>

(***************************************************************************)
(* Server: Connection (the session handle).                                *)
(***************************************************************************)
NewConnection == [user |-> NoUser, isAuthenticated |-> FALSE]

authenticate(c, user) == [c EXCEPT !.user = user, !.isAuthenticated = TRUE]

\* this.user?.id || null : a missing user and an empty id both give null
getUserId(c) ==
    IF c.user = NoUser THEN Null
    ELSE IF c.user.id = "" THEN Null
    ELSE c.user.id

isAuth(c) == c.isAuthenticated

(***************************************************************************)
(* Server: ConnectionManager (the registry).  Each operation takes the two *)
(* maps and returns the maps it leaves.                                    *)
(***************************************************************************)
Registry(conns, us) == [connections |-> conns, userSockets |-> us]

MapSet(f, k, v) == [x \in (DOMAIN f) \cup {k} |-> IF x = k THEN v ELSE f[x]]
MapDelete(f, k) == [x \in (DOMAIN f) \ {k} |-> f[x]]

addConnection(conns, us, sid) == Registry(MapSet(conns, sid, NewConnection), us)

removeConnection(conns, us, sid) ==
    IF sid \in DOMAIN conns
    THEN LET uid == getUserId(conns[sid])
         IN Registry(MapDelete(conns, sid),
                     IF uid # Null THEN MapDelete(us, uid) ELSE us)
    ELSE Registry(conns, us)

\* the Connection is identified by its socket id; NoSid stands for undefined
getConnection(conns, sid) == IF sid \in DOMAIN conns THEN sid ELSE NoSid

getConnectionByUserId(conns, us, uid) ==
    IF uid \notin DOMAIN us THEN NoSid
    ELSE IF us[uid] = NoSid THEN NoSid
    ELSE getConnection(conns, us[uid])

\* authenticateConnection that keeps an existing userId -> socketId entry
authenticateConnectionKeepsFirst(conns, us, sid, user) ==
    IF sid \in DOMAIN conns
    THEN Registry(MapSet(conns, sid, authenticate(conns[sid], user)),
                  IF user.id \in DOMAIN us THEN us ELSE MapSet(us, user.id, sid))
    ELSE Registry(conns, us)

\* authenticateConnection that records the user id without looking for the
\* Connection
authenticateConnectionUnchecked(conns, us, sid, user) ==
    Registry(IF sid \in DOMAIN conns
             THEN MapSet(conns, sid, authenticate(conns[sid], user))
             ELSE conns,
             MapSet(us, user.id, sid))

authenticateConnection(conns, us, sid, user) ==
    IF sid \in DOMAIN conns
    THEN Registry(MapSet(conns, sid, authenticate(conns[sid], user)),
                  MapSet(us, user.id, sid))
    ELSE Registry(conns, us)

isUserOnline(us, uid) == uid \in DOMAIN us

getOnlineUsers(us) == DOMAIN us

\* userIds.forEach: statuses[userId] = isUserOnline(userId), from the k-th on
RECURSIVE statusesFrom(_, _, _, _)
statusesFrom(us, userIds, k, statuses) ==
    IF k > Len(userIds) THEN statuses
    ELSE statusesFrom(us, userIds, k + 1,
                      MapSet(statuses, userIds[k], isUserOnline(us, userIds[k])))

\* getUsersOnlineStatus that lists only the users that are online
getUsersOnlineStatusOnlineOnly(us, userIds) ==
    statusesFrom(us, SelectSeq(userIds, LAMBDA u : isUserOnline(us, u)), 1, << >>)

getUsersOnlineStatus(us, userIds) == statusesFrom(us, userIds, 1, << >>)

getTotalConnections(conns) == Cardinality(DOMAIN conns)

(***************************************************************************)
(* Server: events emitted to sockets.                                      *)
(***************************************************************************)
\* an emitted event: the socket it is sent to, its name and its payload
Ev(to, event) ==
    [to |-> to, event |-> event, from |-> Null, content |-> Null,
     messageId |-> 0, error |-> Null, userId |-> Null, socketId |-> NoSid,
     message |-> Null, statuses |-> << >>]

\* socket.emit: reaches the peer only while the socket is connected
socketEmit(conns, ev) == IF ev.to \in DOMAIN conns THEN <<ev>> ELSE <<>>

\* io.emit: one copy to every connected socket
ioEmit(conns, event, uid) ==
    SelectSeq([i \in 1..NumSockets |-> [Ev(i, event) EXCEPT !.userId = uid]],
              LAMBDA e : e.to \in DOMAIN conns)

Op(op, sid, arg, content) ==
    [op |-> op, sid |-> sid, arg |-> arg, content |-> content]

(***************************************************************************)
(* Server: SocketServer.setupConnectionHandler.                            *)
(***************************************************************************)
\* the 'disconnect' listener of a connected socket: the registry it leaves
\* and the presence broadcast it makes
disconnectListener(conns, us, sid) ==
    LET uid == getUserId(conns[sid])
        reg == removeConnection(conns, us, sid)
    IN [reg |-> reg,
        emits |-> IF uid # Null /\ presencePlugin
                  THEN ioEmit(reg.connections, "user_offline", uid)
                  ELSE <<>>]

\* socket.disconnect() on the server: a no-op on a socket already closed,
\* otherwise the 'disconnect' listener runs before it returns
socketDisconnect(conns, us, sid) ==
    IF sid \in DOMAIN conns
    THEN disconnectListener(conns, us, sid)
    ELSE [reg |-> Registry(conns, us), emits |-> <<>>]

\* io.on('connection'): a new transport connection with a fresh socket id
OnConnection(sid) ==
    /\ sid \in SocketIds
    /\ sid = Cardinality(DOMAIN connections \cup closed) + 1
    /\ LET reg == addConnection(connections, userSockets, sid)
       IN /\ connections' = reg.connections
          /\ userSockets' = reg.userSockets
    /\ emitted' = <<>>
    /\ lastOp' = Op("connection", sid, Null, Null)
    /\ UNCHANGED <<closed, pendingAuth, presencePlugin, server, clientVars>>

\* socket.on('disconnect'): the transport of a connected socket closes
OnDisconnect(sid) ==
    /\ sid \in DOMAIN connections
    /\ LET r == disconnectListener(connections, userSockets, sid)
       IN /\ connections' = r.reg.connections
          /\ userSockets' = r.reg.userSockets
          /\ emitted' = r.emits
    /\ closed' = closed \cup {sid}
    /\ lastOp' = Op("disconnect", sid, Null, Null)
    /\ UNCHANGED <<pendingAuth, presencePlugin, server, clientVars>>

\* socket.on('authenticated'): the listener runs when the peer of the socket
\* sends an event named 'authenticated' to the server
authenticatedListener(conns, sid) ==
    LET uid == getUserId(conns[sid])
    IN IF uid # Null /\ presencePlugin
       THEN ioEmit(conns, "user_online", uid)
       ELSE <<>>

OnAuthenticated(sid) ==
    /\ sid \in DOMAIN connections
    /\ emitted' = authenticatedListener(connections, sid)
    /\ lastOp' = Op("authenticated", sid, Null, Null)
    /\ UNCHANGED <<connections, userSockets, closed, pendingAuth, presencePlugin, server,
                   clientVars>>

(***************************************************************************)
(* Server: AuthPlugin.                                                     *)
(***************************************************************************)
\* the authenticate request arrives and the handler awaits the validator
OnAuthenticate(sid) ==
    /\ sid \in DOMAIN connections
    /\ sid \notin pendingAuth
    /\ pendingAuth' = pendingAuth \cup {sid}
    /\ emitted' = <<>>
    /\ lastOp' = Op("authenticate", sid, Null, Null)
    /\ UNCHANGED <<connections, userSockets, closed, presencePlugin, server, clientVars>>

\* the handler with a catch block that reports the error and leaves the
\* socket open
authHandlerResumeKeepsOpen(conns, us, sid, result) ==
    IF result = ValidatorThrows
    THEN [reg |-> Registry(conns, us),
          emits |-> socketEmit(conns, [Ev(sid, "auth_error") EXCEPT
                                          !.message = "Authentication failed"])]
    ELSE IF result = ValidatorNull
    THEN LET d == socketDisconnect(conns, us, sid)
         IN [reg |-> d.reg,
             emits |-> socketEmit(conns, [Ev(sid, "auth_error") EXCEPT
                          !.message = "Invalid authentication token"]) \o d.emits]
    ELSE LET user == [id |-> result, socketId |-> sid, connectedAt |-> Now]
             reg == authenticateConnection(conns, us, sid, user)
         IN [reg |-> reg,
             emits |-> socketEmit(reg.connections,
                          [Ev(sid, "authenticated") EXCEPT !.userId = user.id,
                                                           !.socketId = sid])]

\* the handler storing the validator's user without stamping the socket id
authHandlerResumeUnstamped(conns, us, sid, result) ==
    IF result \in {ValidatorNull, ValidatorThrows}
    THEN LET d == socketDisconnect(conns, us, sid)
         IN [reg |-> d.reg,
             emits |-> socketEmit(conns, [Ev(sid, "auth_error") EXCEPT !.message =
                          IF result = ValidatorNull
                          THEN "Invalid authentication token"
                          ELSE "Authentication failed"]) \o d.emits]
    ELSE LET user == [id |-> result, socketId |-> NoSid, connectedAt |-> Now]
             reg == authenticateConnection(conns, us, sid, user)
         IN [reg |-> reg,
             emits |-> socketEmit(reg.connections,
                          [Ev(sid, "authenticated") EXCEPT !.userId = user.id,
                                                           !.socketId = sid])]

\* the rest of the handler once the validator has answered `result`
authHandlerResume(conns, us, sid, result) ==
    IF result \in {ValidatorNull, ValidatorThrows}
    THEN LET err == [Ev(sid, "auth_error") EXCEPT !.message =
                        IF result = ValidatorNull
                        THEN "Invalid authentication token"
                        ELSE "Authentication failed"]
             d == socketDisconnect(conns, us, sid)
         IN [reg |-> d.reg, emits |-> socketEmit(conns, err) \o d.emits]
    ELSE LET user == [id |-> result, socketId |-> sid, connectedAt |-> Now]
             reg == authenticateConnection(conns, us, sid, user)
             ok == [Ev(sid, "authenticated") EXCEPT !.userId = user.id,
                                                    !.socketId = sid]
         IN [reg |-> reg, emits |-> socketEmit(reg.connections, ok)]

ValidatorReturns(sid, result) ==
    /\ sid \in pendingAuth
    /\ result \in ValidatorResults
    /\ pendingAuth' = pendingAuth \ {sid}
    /\ LET r == authHandlerResume(connections, userSockets, sid, result)
       IN /\ connections' = r.reg.connections
          /\ userSockets' = r.reg.userSockets
          /\ emitted' = r.emits
          /\ closed' = closed \cup ((DOMAIN connections) \ (DOMAIN r.reg.connections))
    /\ lastOp' = Op("validated", sid, result, Null)
    /\ UNCHANGED <<presencePlugin, server, clientVars>>

(***************************************************************************)
(* Server: MessagePlugin.                                                  *)
(***************************************************************************)
\* the send_message listener with the offline error sent like the other
\* errors, without a messageId
sendMessageHandlerUntaggedError(conns, us, sid, to, content, uuid) ==
    IF sid \notin DOMAIN conns \/ ~isAuth(conns[sid])
    THEN socketEmit(conns, [Ev(sid, "message_error") EXCEPT
                               !.error = "Not authenticated"])
    ELSE IF getUserId(conns[sid]) = Null
    THEN socketEmit(conns, [Ev(sid, "message_error") EXCEPT
                               !.error = "Invalid user"])
    ELSE IF getConnectionByUserId(conns, us, to) = NoSid
    THEN socketEmit(conns, [Ev(sid, "message_error") EXCEPT
                               !.error = "Recipient is offline"])
    ELSE socketEmit(conns,
             [Ev(getConnectionByUserId(conns, us, to), "receive_message")
                 EXCEPT !.from = getUserId(conns[sid]), !.content = content,
                        !.messageId = uuid])
         \o socketEmit(conns, [Ev(sid, "message_delivered") EXCEPT
                                  !.messageId = uuid])

\* the send_message listener taking the from field from the request
sendMessageHandlerFromPayload(conns, us, sid, to, content, uuid) ==
    IF sid \notin DOMAIN conns \/ ~isAuth(conns[sid])
    THEN socketEmit(conns, [Ev(sid, "message_error") EXCEPT
                               !.error = "Not authenticated"])
    ELSE IF getUserId(conns[sid]) = Null
    THEN socketEmit(conns, [Ev(sid, "message_error") EXCEPT
                               !.error = "Invalid user"])
    ELSE IF getConnectionByUserId(conns, us, to) = NoSid
    THEN socketEmit(conns, [Ev(sid, "message_error") EXCEPT
                               !.messageId = uuid,
                               !.error = "Recipient is offline"])
    ELSE socketEmit(conns,
             [Ev(getConnectionByUserId(conns, us, to), "receive_message")
                 EXCEPT !.from = to, !.content = content,
                        !.messageId = uuid])
         \o socketEmit(conns, [Ev(sid, "message_delivered") EXCEPT
                                  !.messageId = uuid])

\* the send_message listener without the confirmation to the sender
sendMessageHandlerUnconfirmed(conns, us, sid, to, content, uuid) ==
    IF sid \notin DOMAIN conns \/ ~isAuth(conns[sid])
    THEN socketEmit(conns, [Ev(sid, "message_error") EXCEPT
                               !.error = "Not authenticated"])
    ELSE IF getUserId(conns[sid]) = Null
    THEN socketEmit(conns, [Ev(sid, "message_error") EXCEPT
                               !.error = "Invalid user"])
    ELSE IF getConnectionByUserId(conns, us, to) = NoSid
    THEN socketEmit(conns, [Ev(sid, "message_error") EXCEPT
                               !.messageId = uuid,
                               !.error = "Recipient is offline"])
    ELSE socketEmit(conns,
             [Ev(getConnectionByUserId(conns, us, to), "receive_message")
                 EXCEPT !.from = getUserId(conns[sid]), !.content = content,
                        !.messageId = uuid])

\* the send_message listener; uuid is the value randomUUID() returns
sendMessageHandler(conns, us, sid, to, content, uuid) ==
    LET connection == getConnection(conns, sid)
    IN IF connection = NoSid \/ ~isAuth(conns[sid])
       THEN socketEmit(conns, [Ev(sid, "message_error") EXCEPT
                                  !.error = "Not authenticated"])
       ELSE LET fromUserId == getUserId(conns[sid])
            IN IF fromUserId = Null
               THEN socketEmit(conns, [Ev(sid, "message_error") EXCEPT
                                          !.error = "Invalid user"])
               ELSE LET recipientConnection ==
                            getConnectionByUserId(conns, us, to)
                    IN IF recipientConnection = NoSid
                       THEN socketEmit(conns,
                                [Ev(sid, "message_error") EXCEPT
                                    !.messageId = uuid,
                                    !.error = "Recipient is offline"])
                       ELSE socketEmit(conns,
                                [Ev(recipientConnection, "receive_message")
                                    EXCEPT !.from = fromUserId,
                                           !.content = content,
                                           !.messageId = uuid])
                            \o socketEmit(conns,
                                [Ev(sid, "message_delivered") EXCEPT
                                    !.messageId = uuid])

OnSendMessage(sid, to, content, uuid) ==
    /\ sid \in DOMAIN connections
    /\ to \in UserIds
    /\ content \in Contents
    /\ uuid \in Uuids
    /\ emitted' = sendMessageHandler(connections, userSockets, sid, to, content, uuid)
    /\ lastOp' = Op("send_message", sid, to, content)
    /\ UNCHANGED <<connections, userSockets, closed, pendingAuth, presencePlugin, server,
                   clientVars>>

\* the typing listeners without the check that the sender is authenticated
typingHandlerUnchecked(conns, us, sid, to, event) ==
    LET recipientConnection == getConnectionByUserId(conns, us, to)
    IN IF sid \in DOMAIN conns /\ recipientConnection # NoSid
       THEN socketEmit(conns, [Ev(recipientConnection, event)
                                  EXCEPT !.from = getUserId(conns[sid])])
       ELSE <<>>

\* the typing listeners reporting an offline recipient to the sender, as
\* send_message does
typingHandlerReportsOffline(conns, us, sid, to, event) ==
    IF sid \notin DOMAIN conns \/ ~isAuth(conns[sid])
    THEN <<>>
    ELSE IF getUserId(conns[sid]) = Null
    THEN <<>>
    ELSE IF getConnectionByUserId(conns, us, to) # NoSid
    THEN socketEmit(conns, [Ev(getConnectionByUserId(conns, us, to), event)
                               EXCEPT !.from = getUserId(conns[sid])])
    ELSE socketEmit(conns, [Ev(sid, "message_error") EXCEPT
                               !.error = "Recipient is offline"])

\* the typing_start / typing_stop listeners
typingHandler(conns, us, sid, to, event) ==
    LET connection == getConnection(conns, sid)
    IN IF connection = NoSid \/ ~isAuth(conns[sid])
       THEN <<>>
       ELSE LET fromUserId == getUserId(conns[sid])
            IN IF fromUserId = Null
               THEN <<>>
               ELSE LET recipientConnection ==
                            getConnectionByUserId(conns, us, to)
                    IN IF recipientConnection # NoSid
                       THEN socketEmit(conns,
                                [Ev(recipientConnection, event)
                                    EXCEPT !.from = fromUserId])
                       ELSE <<>>

OnTyping(sid, to, event) ==
    /\ sid \in DOMAIN connections
    /\ to \in UserIds
    /\ event \in TypingEvents
    /\ emitted' = typingHandler(connections, userSockets, sid, to, event)
    /\ lastOp' = Op(event, sid, to, Null)
    /\ UNCHANGED <<connections, userSockets, closed, pendingAuth, presencePlugin, server,
                   clientVars>>

(***************************************************************************)
(* Server: PresencePlugin.                                                 *)
(***************************************************************************)
\* the get_online_status listener: the events it emits
onlineStatusHandler(conns, us, sid, userIds) ==
    socketEmit(conns, [Ev(sid, "online_status") EXCEPT
                          !.statuses = getUsersOnlineStatus(us, userIds)])

\* a connected socket sends get_online_status; the listener is attached when
\* the presence plugin is in use
OnGetOnlineStatus(sid, userIds) ==
    /\ sid \in DOMAIN connections
    /\ presencePlugin
    /\ userIds \in IdLists
    /\ emitted' = onlineStatusHandler(connections, userSockets, sid, userIds)
    /\ lastOp' = Op("get_online_status", sid, userIds, Null)
    /\ UNCHANGED <<connections, userSockets, closed, pendingAuth, presencePlugin, server,
                   clientVars>>

(***************************************************************************)
(* Server: the calls on one ConnectionManager (the registry).              *)
(***************************************************************************)
AddConnection(sid) ==
    /\ sid \in SocketIds
    /\ sid = Cardinality(DOMAIN connections \cup closed) + 1
    /\ LET reg == addConnection(connections, userSockets, sid)
       IN /\ connections' = reg.connections
          /\ userSockets' = reg.userSockets
    /\ emitted' = <<>>
    /\ lastOp' = Op("addConnection", sid, Null, Null)
    /\ returned' = Null
    /\ UNCHANGED <<closed, pendingAuth, presencePlugin, server, clientFields>>

AuthenticateConnection(sid, uid) ==
    /\ sid \in SocketIds /\ uid \in UserIds
    /\ LET user == [id |-> uid, socketId |-> sid, connectedAt |-> Now]
           reg == authenticateConnection(connections, userSockets, sid, user)
       IN /\ connections' = reg.connections
          /\ userSockets' = reg.userSockets
    /\ emitted' = <<>>
    /\ lastOp' = Op("authenticateConnection", sid, uid, Null)
    /\ returned' = Null
    /\ UNCHANGED <<closed, pendingAuth, presencePlugin, server, clientFields>>

RemoveConnection(sid) ==
    /\ sid \in SocketIds
    /\ LET reg == removeConnection(connections, userSockets, sid)
       IN /\ connections' = reg.connections
          /\ userSockets' = reg.userSockets
    /\ closed' = closed \cup ({sid} \cap DOMAIN connections)
    /\ emitted' = <<>>
    /\ lastOp' = Op("removeConnection", sid, Null, Null)
    /\ returned' = Null
    /\ UNCHANGED <<pendingAuth, presencePlugin, server, clientFields>>

GetUsersOnlineStatus(userIds) ==
    /\ userIds \in IdLists
    /\ returned' = getUsersOnlineStatus(userSockets, userIds)
    /\ emitted' = <<>>
    /\ lastOp' = Op("getUsersOnlineStatus", NoSid, userIds, Null)
    /\ UNCHANGED <<connections, userSockets, closed, pendingAuth, presencePlugin, server,
                   clientFields>>

(***************************************************************************)
(* Server: SocketServer, its Socket.IO server and its HTTP server.         *)
(***************************************************************************)
\* the SocketServer a constructor call leaves. httpServer names the HTTP
\* server held by where it came from: "null", "callers" (passed to attach),
\* "express" (created by attachToExpress) or "standalone"; http is that
\* server's state: "idle", "listening" or "closed"
Constructed(configPort) ==
    [io |-> FALSE, ioOpen |-> FALSE, httpServer |-> "null",
     isOwnServer |-> FALSE, http |-> "idle", port |-> 0,
     configPort |-> configPort, initialized |-> FALSE, error |-> Null]

\* the SocketServer the other specifications run on: attached to an HTTP
\* server of the caller, which listens; plugins initialized
Serving ==
    [Constructed(0) EXCEPT !.io = TRUE, !.ioOpen = TRUE,
                           !.httpServer = "callers", !.http = "listening",
                           !.port = 8080, !.initialized = TRUE]

\* the server at the start of a call
Server == [server EXCEPT !.error = Null]

\* new Server(httpServer, socketOptions)
initializeSocketIO(s) == [s EXCEPT !.io = TRUE, !.ioOpen = TRUE]

\* attach(httpServer), hs naming the HTTP server passed
attach(s, hs) ==
    IF s.io
    THEN [s EXCEPT !.error = "Socket.IO server already initialized"]
    ELSE initializeSocketIO([s EXCEPT !.httpServer = hs, !.http = "idle",
                                      !.port = 0, !.isOwnServer = FALSE])

attachToExpress(s) == attach([s EXCEPT !.isOwnServer = TRUE], "express")

createStandalone(s) ==
    IF s.io
    THEN [s EXCEPT !.error = "Socket.IO server already initialized"]
    ELSE initializeSocketIO([s EXCEPT !.httpServer = "standalone",
                                      !.http = "idle", !.port = 0,
                                      !.isOwnServer = TRUE])

\* plugins.forEach(plugin => plugin.initialize())
initializePlugins(s) == [s EXCEPT !.initialized = TRUE]

\* listen(port): an HTTP server that listens already keeps its port
listen(s, port) ==
    LET s1 == IF ~s.io THEN createStandalone(s) ELSE s
        listenPort == IF port # 0 THEN port
                      ELSE IF s.configPort # 0 THEN s.configPort
                      ELSE DefaultPort
    IN IF ~s1.isOwnServer THEN initializePlugins(s1)
       ELSE IF s1.httpServer = "null"
       THEN [s1 EXCEPT !.error = "HTTP server not initialized"]
       ELSE IF s1.http = "listening" THEN initializePlugins(s1)
       ELSE [initializePlugins(s1) EXCEPT !.http = "listening",
                                          !.port = listenPort]

initialize(s) ==
    IF ~s.io
    THEN [s EXCEPT !.error = "Socket.IO server not initialized"]
    ELSE initializePlugins(s)

\* close(): io.close(), then httpServer.close() on a server of its own
close(s) ==
    IF s.io
    THEN LET s1 == [s EXCEPT !.ioOpen = FALSE]
         IN IF s1.httpServer # "null" /\ s1.isOwnServer
            THEN [s1 EXCEPT !.http = "closed", !.port = 0]
            ELSE s1
    ELSE s

\* a call on the SocketServer leaves the registry and the sessions alone
ServerCall(op, arg) ==
    /\ emitted' = <<>>
    /\ lastOp' = Op(op, NoSid, arg, Null)
    /\ UNCHANGED <<connections, userSockets, closed, pendingAuth, presencePlugin,
                   clientVars>>

Attach ==
    /\ server' = attach(Server, "callers")
    /\ ServerCall("attach", Null)

AttachToExpress ==
    /\ server' = attachToExpress(Server)
    /\ ServerCall("attachToExpress", Null)

CreateStandalone ==
    /\ server' = createStandalone(Server)
    /\ ServerCall("createStandalone", Null)

Listen(port) ==
    /\ port \in Ports
    /\ server' = listen(Server, port)
    /\ ServerCall("listen", port)

Initialize ==
    /\ server' = initialize(Server)
    /\ ServerCall("initialize", Null)

Close ==
    /\ server' = close(Server)
    /\ ServerCall("close", Null)

\* the caller of attach(httpServer) calls httpServer.listen(port) itself
CallerListens(port) ==
    /\ port \in Ports \ {0}
    /\ server.httpServer = "callers" /\ server.http # "listening"
    /\ server' = [Server EXCEPT !.http = "listening", !.port = port]
    /\ ServerCall("httpServer.listen", port)

\* the caller of attach(httpServer) calls httpServer.close() itself
CallerCloses ==
    /\ server.httpServer = "callers" /\ server.http = "listening"
    /\ server' = [Server EXCEPT !.http = "closed", !.port = 0]
    /\ ServerCall("httpServer.close", Null)

Next ==
    \/ \E sid \in SocketIds : OnConnection(sid)
    \/ \E sid \in SocketIds : OnDisconnect(sid)
    \/ \E sid \in SocketIds : OnAuthenticate(sid)
    \/ \E sid \in SocketIds, result \in ValidatorResults : ValidatorReturns(sid, result)
    \/ \E sid \in SocketIds, to \in UserIds, content \in Contents, uuid \in Uuids :
          OnSendMessage(sid, to, content, uuid)

ServerInit ==
    /\ connections = << >>
    /\ userSockets = << >>
    /\ closed = {}
    /\ pendingAuth = {}
    /\ presencePlugin \in BOOLEAN
    /\ emitted = <<>>
    /\ lastOp = Op("start", NoSid, Null, Null)
    /\ server = Serving

(***************************************************************************)
(* Client: ConnectionManager (the state machine).  The client's fields are *)
(* gathered in one record c; every method maps the record to the record it *)
(* leaves.                                                                 *)
(***************************************************************************)
Client ==
    [state |-> state, reconnectAttempts |-> reconnectAttempts,
     userId |-> userId, reconnectTimer |-> reconnectTimer, socket |-> socket,
     transports |-> transports, published |-> <<>>, sent |-> <<>>,
     thrown |-> Null, listeners |-> listeners, events |-> events,
     called |-> <<>>, returned |-> Null, timers |-> timers,
     timerDelay |-> timerDelay, dropped |-> dropped]

\* the callbacks an application registers, named by what they do when they
\* are invoked: return, raise an error, or run their own cleanup function
Handlers == {"plain", "thrower", "once"}

Range(s) == {s[i] : i \in DOMAIN s}

\* onStateChange(listener): listeners is a Set, a second add changes nothing
onStateChange(c, l) ==
    IF l \in Range(c.listeners) THEN c
    ELSE [c EXCEPT !.listeners = Append(@, l), !.dropped = @ \ {l}]

\* the function onStateChange returns: listeners.delete(listener)
unsubscribe(c, l) ==
    [c EXCEPT !.listeners = SelectSeq(@, LAMBDA x : x # l)]

\* listener(this.state): the call, and what the listener does in it
listenerCall(c, l) ==
    LET c1 == [c EXCEPT !.called = Append(@, [handler |-> l, event |-> "state",
                                               arg |-> c.state])]
    IN IF l = "once" THEN unsubscribe(c1, l) ELSE c1

\* listeners.forEach: the entries in insertion order, an entry deleted
\* before its turn is not visited; an error a listener raises is caught
RECURSIVE notifyFrom(_, _, _)
notifyFrom(c, snapshot, k) ==
    IF k > Len(snapshot) THEN c
    ELSE IF snapshot[k] \notin Range(c.listeners)
         THEN notifyFrom(c, snapshot, k + 1)
         ELSE notifyFrom(listenerCall(c, snapshot[k]), snapshot, k + 1)

notifyListeners(c) == notifyFrom(c, c.listeners, 1)

\* setState that notifies the listeners also when the state is the same
setStateAlways(c, s) == notifyListeners([c EXCEPT !.state = s])

setState(c, s) ==
    IF c.state # s THEN notifyListeners([c EXCEPT !.state = s]) ELSE c

isConnected(c) == c.state = "connected" \/ c.state = "authenticated"

isAuthenticated(c) == c.state = "authenticated"

incrementReconnectAttempts(c) ==
    [c EXCEPT !.reconnectAttempts = @ + 1, !.returned = c.reconnectAttempts + 1]

resetReconnectAttempts(c) == [c EXCEPT !.reconnectAttempts = 0]

\* canReconnect that still allows an attempt when the maximum is reached
canReconnectAtMax(c) == c.reconnectAttempts <= MaxReconnectAttempts

canReconnect(c) == c.reconnectAttempts < MaxReconnectAttempts

\* reset that leaves the listeners registered
resetKeepsListeners(c) ==
    [c EXCEPT !.state = "disconnected", !.reconnectAttempts = 0]

reset(c) ==
    [c EXCEPT !.state = "disconnected", !.reconnectAttempts = 0,
              !.listeners = <<>>, !.dropped = Range(c.listeners)]

(***************************************************************************)
(* Client: EventEmitter.                                                   *)
(***************************************************************************)
\* this.events.get(event), the empty list standing for no entry
handlersOf(c, event) ==
    IF event \in DOMAIN c.events THEN c.events[event] ELSE <<>>

\* handlers.indexOf(handler), counted from 1; 0 when it is absent
indexOf(hs, h) ==
    IF h \in Range(hs)
    THEN CHOOSE i \in DOMAIN hs : hs[i] = h /\ \A j \in 1..(i - 1) : hs[j] # h
    ELSE 0

on(c, event, h) ==
    [c EXCEPT !.events = MapSet(@, event, Append(handlersOf(c, event), h))]

off(c, event, h) ==
    IF event \notin DOMAIN c.events THEN c
    ELSE LET hs == c.events[event]
             i == indexOf(hs, h)
             spliced == IF i = 0 THEN hs
                        ELSE SubSeq(hs, 1, i - 1) \o SubSeq(hs, i + 1, Len(hs))
         IN IF spliced = <<>>
            THEN [c EXCEPT !.events = MapDelete(@, event)]
            ELSE [c EXCEPT !.events = MapSet(@, event, spliced)]

\* handler(...args): the call, and what the handler does in it
handlerCall(c, event, h, arg) ==
    LET c1 == [c EXCEPT !.called = Append(@, [handler |-> h, event |-> event,
                                               arg |-> arg])]
    IN IF h = "once" THEN off(c1, event, h) ELSE c1

\* handlers.forEach: the indices below the length the array had when the
\* loop began, an index the array no longer has is passed over; an error a
\* handler raises is caught
RECURSIVE forEachHandler(_, _, _, _, _)
forEachHandler(c, event, arg, k, len) ==
    IF k > len THEN c
    ELSE IF k > Len(handlersOf(c, event))
         THEN forEachHandler(c, event, arg, k + 1, len)
         ELSE forEachHandler(handlerCall(c, event, handlersOf(c, event)[k], arg),
                             event, arg, k + 1, len)

\* eventEmitter.emit: the event reaches the application's handlers
emit(c, event, arg) ==
    forEachHandler([c EXCEPT !.published = Append(@, [event |-> event,
                                                       arg |-> arg])],
                   event, arg, 1, Len(handlersOf(c, event)))

(***************************************************************************)
(* Client: SocketClient.                                                   *)
(***************************************************************************)

\* this.socket.emit: a request put on the current socket; on a null socket
\* the call is a TypeError
socketSend(c, event, arg) ==
    IF c.socket = NoSid
    THEN [c EXCEPT !.thrown = "TypeError"]
    ELSE [c EXCEPT !.sent = Append(@, [event |-> event, arg |-> arg])]

\* this.socket?.connected
socketConnected(c) ==
    c.socket # NoSid /\ c.transports[c.socket].st = "open"

\* io(url, ...) followed by setupSocketListeners(): a new transport, opening
connect(c) ==
    IF socketConnected(c)
    THEN c
    ELSE [setState(c, "connecting") EXCEPT
             !.transports = Append(@, [st |-> "opening", authSent |-> FALSE]),
             !.socket = Len(c.transports) + 1]

shouldReconnect(c, reason) ==
    reason # "io client disconnect" /\ canReconnect(c)

\* clearTimeout(this.reconnectTimer): the handle of a timeout that has
\* fired clears nothing
clearTimeout(c) ==
    IF c.reconnectTimer = "pending"
    THEN [c EXCEPT !.timers = @ - 1, !.timerDelay = 0]
    ELSE c

\* scheduleReconnect with the same delay for every attempt
scheduleReconnectFixedDelay(c) ==
    LET cleared == IF c.reconnectTimer # "null" THEN clearTimeout(c) ELSE c
        counted == incrementReconnectAttempts(cleared)
    IN [setState(counted, "reconnecting") EXCEPT
           !.reconnectTimer = "pending", !.timers = @ + 1,
           !.timerDelay = ReconnectionDelay, !.returned = Null]

scheduleReconnect(c) ==
    LET cleared == IF c.reconnectTimer # "null" THEN clearTimeout(c) ELSE c
        counted == incrementReconnectAttempts(cleared)
        attempt == counted.returned
        delay == ReconnectionDelay * attempt
    IN [setState(counted, "reconnecting") EXCEPT
           !.reconnectTimer = "pending", !.timers = @ + 1,
           !.timerDelay = delay, !.returned = Null]

\* the 'connect' listener without the reset of the attempt counter
socketOnConnectKeepsCount(c) == emit(setState(c, "connected"), "connect", Null)

\* socket.on('connect')
socketOnConnect(c) ==
    emit(resetReconnectAttempts(setState(c, "connected")), "connect", Null)

\* the 'disconnect' listener without the reset of the cached user id
socketOnDisconnectKeepsUser(c, reason) ==
    LET c1 == emit(setState(c, "disconnected"), "disconnect", reason)
    IN IF reconnection /\ shouldReconnect(c1, reason)
       THEN scheduleReconnect(c1)
       ELSE c1

\* socket.on('disconnect')
socketOnDisconnect(c, reason) ==
    LET c1 == emit([setState(c, "disconnected") EXCEPT !.userId = Null],
                   "disconnect", reason)
    IN IF reconnection /\ shouldReconnect(c1, reason)
       THEN scheduleReconnect(c1)
       ELSE c1

\* socket.on('connect_error')
socketOnConnectError(c) ==
    LET c1 == emit(setState(c, "error"), "error", Null)
    IN IF reconnection THEN scheduleReconnect(c1) ELSE c1

\* socket.on('authenticated')
socketOnAuthenticated(c, uid) ==
    emit(setState([c EXCEPT !.userId = uid], "authenticated"),
         "authenticated", uid)

\* socket.on('auth_error')
socketOnAuthError(c) == emit(c, "auth_error", Null)

\* socket.disconnect() of socket.io-client on transport i: an open socket
\* runs its 'disconnect' listener with the client-initiated reason before
\* the call returns; a socket still opening is dropped without an event
socketDisconnectCall(c, i) ==
    LET was == c.transports[i].st
        c1 == [c EXCEPT !.transports[i].st = "closed"]
    IN IF was = "open" THEN socketOnDisconnect(c1, "io client disconnect")
       ELSE c1

disconnect(c) ==
    LET c1 == IF c.reconnectTimer # "null"
              THEN [clearTimeout(c) EXCEPT !.reconnectTimer = "null"] ELSE c
        c2 == IF c1.socket # NoSid
              THEN [socketDisconnectCall(c1, c1.socket) EXCEPT !.socket = NoSid]
              ELSE c1
    IN [reset(c2) EXCEPT !.userId = Null]

\* authenticate(token)
clientAuthenticate(c) ==
    IF ~socketConnected(c)
    THEN [c EXCEPT !.thrown = "Socket not connected. Call connect() first."]
    ELSE socketSend([c EXCEPT !.transports[c.socket].authSent = TRUE],
                    "authenticate", Null)

\* sendMessage without its check of isAuthenticated()
sendMessageUnchecked(c, to, content) ==
    socketSend(c, "send_message", [to |-> to, content |-> content])

sendMessage(c, to, content) ==
    IF ~isAuthenticated(c)
    THEN [c EXCEPT !.thrown = "Not authenticated. Call authenticate() first."]
    ELSE socketSend(c, "send_message", [to |-> to, content |-> content])

getOnlineStatus(c, userIds) ==
    IF ~isConnected(c)
    THEN [c EXCEPT !.thrown = "Not connected."]
    ELSE socketSend(c, "get_online_status", userIds)

startTyping(c, to) ==
    IF ~isAuthenticated(c) THEN c ELSE socketSend(c, "typing_start", to)

stopTyping(c, to) ==
    IF ~isAuthenticated(c) THEN c ELSE socketSend(c, "typing_stop", to)

\* the reconnect timer's callback
reconnectTimerCallback(c) ==
    connect([c EXCEPT !.reconnectTimer = "fired", !.timers = @ - 1,
                      !.timerDelay = 0])

\* the fields of c become the client's next state
Becomes(c) ==
    /\ state' = c.state
    /\ reconnectAttempts' = c.reconnectAttempts
    /\ userId' = c.userId
    /\ reconnectTimer' = c.reconnectTimer
    /\ socket' = c.socket
    /\ transports' = c.transports
    /\ published' = c.published
    /\ sent' = c.sent
    /\ thrown' = c.thrown
    /\ listeners' = c.listeners
    /\ events' = c.events
    /\ called' = c.called
    /\ returned' = c.returned
    /\ timers' = c.timers
    /\ timerDelay' = c.timerDelay
    /\ dropped' = c.dropped

\* the run creates at most MaxTransports transports
WithinTransports(c) == Len(c.transports) <= MaxTransports

\* the transport-close reasons the transport itself reports
CloseReasons == {"transport close", "io server disconnect"}

(***************************************************************************)
(* Client: the steps of one SocketClient.                                  *)
(***************************************************************************)
\* the application calls connect()
AppConnect ==
    /\ WithinTransports(connect(Client))
    /\ Becomes(connect(Client))
    /\ clientOp' = "connect"
    /\ terminal' = FALSE
    /\ UNCHANGED <<reconnection, retries, everOpened, serverVars>>

\* the application calls disconnect()
AppDisconnect ==
    /\ Becomes(disconnect(Client))
    /\ clientOp' = "disconnect"
    /\ terminal' = TRUE
    /\ retries' = 0
    /\ UNCHANGED <<reconnection, everOpened, serverVars>>

\* the application calls authenticate(token)
AppAuthenticate ==
    /\ Becomes(clientAuthenticate(Client))
    /\ clientOp' = "authenticate"
    /\ UNCHANGED <<reconnection, terminal, retries, everOpened, serverVars>>

\* the application calls startTyping(to)
AppStartTyping(to) ==
    /\ to \in UserIds
    /\ Becomes(startTyping(Client, to))
    /\ clientOp' = "startTyping"
    /\ UNCHANGED <<reconnection, terminal, retries, everOpened, serverVars>>

\* the application calls stopTyping(to)
AppStopTyping(to) ==
    /\ to \in UserIds
    /\ Becomes(stopTyping(Client, to))
    /\ clientOp' = "stopTyping"
    /\ UNCHANGED <<reconnection, terminal, retries, everOpened, serverVars>>

\* the application calls sendMessage(to, content)
AppSendMessage(to, content) ==
    /\ to \in UserIds /\ content \in Contents
    /\ Becomes(sendMessage(Client, to, content))
    /\ clientOp' = "sendMessage"
    /\ UNCHANGED <<reconnection, terminal, retries, everOpened, serverVars>>

\* the application calls getOnlineStatus(userIds)
AppGetOnlineStatus(userIds) ==
    /\ userIds \in IdLists
    /\ Becomes(getOnlineStatus(Client, userIds))
    /\ clientOp' = "getOnlineStatus"
    /\ UNCHANGED <<reconnection, terminal, retries, everOpened, serverVars>>

\* transport i opens
TransportOpen(i) ==
    /\ i \in 1..Len(transports)
    /\ transports[i].st = "opening"
    /\ Becomes(socketOnConnect([Client EXCEPT !.transports[i].st = "open"]))
    /\ clientOp' = "open"
    /\ retries' = 0
    /\ everOpened' = TRUE
    /\ UNCHANGED <<reconnection, terminal, serverVars>>

\* transport i fails to open
TransportError(i) ==
    /\ i \in 1..Len(transports)
    /\ transports[i].st = "opening"
    /\ Becomes(socketOnConnectError([Client EXCEPT !.transports[i].st = "closed"]))
    /\ clientOp' = "connect_error"
    /\ UNCHANGED <<reconnection, terminal, retries, everOpened, serverVars>>

\* transport i, open, is closed by the network or by the server
TransportClose(i, reason) ==
    /\ i \in 1..Len(transports)
    /\ transports[i].st = "open"
    /\ reason \in CloseReasons
    /\ Becomes(socketOnDisconnect([Client EXCEPT !.transports[i].st = "closed"],
                                  reason))
    /\ clientOp' = "close"
    /\ UNCHANGED <<reconnection, terminal, retries, everOpened, serverVars>>

\* the server answers an authenticate request sent on transport i
ServerAuthenticated(i, uid) ==
    /\ i \in 1..Len(transports)
    /\ transports[i].st = "open" /\ transports[i].authSent
    /\ uid \in UserIds
    /\ Becomes(socketOnAuthenticated(
                  [Client EXCEPT !.transports[i].authSent = FALSE], uid))
    /\ clientOp' = "authenticated"
    /\ UNCHANGED <<reconnection, terminal, retries, everOpened, serverVars>>

ServerAuthError(i) ==
    /\ i \in 1..Len(transports)
    /\ transports[i].st = "open" /\ transports[i].authSent
    /\ Becomes(socketOnAuthError(
                  [Client EXCEPT !.transports[i].authSent = FALSE]))
    /\ clientOp' = "auth_error"
    /\ UNCHANGED <<reconnection, terminal, retries, everOpened, serverVars>>

\* the pending reconnect timer expires
ReconnectTimerFires ==
    /\ reconnectTimer = "pending"
    /\ WithinTransports(reconnectTimerCallback(Client))
    /\ Becomes(reconnectTimerCallback(Client))
    /\ clientOp' = "timer"
    /\ retries' = IF Len(reconnectTimerCallback(Client).transports) > Len(transports)
                  THEN retries + 1 ELSE retries
    /\ UNCHANGED <<reconnection, terminal, everOpened, serverVars>>

(***************************************************************************)
(* Client: the calls on one EventEmitter.                                  *)
(***************************************************************************)
\* the run keeps at most MaxHandlers handlers on one event name
On(event, h) ==
    /\ event \in EventNames /\ h \in Handlers
    /\ Len(handlersOf(Client, event)) < MaxHandlers
    /\ Becomes(on(Client, event, h))
    /\ clientOp' = "on"
    /\ UNCHANGED <<reconnection, terminal, retries, everOpened, serverVars>>

Off(event, h) ==
    /\ event \in EventNames /\ h \in Handlers
    /\ Becomes(off(Client, event, h))
    /\ clientOp' = "off"
    /\ UNCHANGED <<reconnection, terminal, retries, everOpened, serverVars>>

Emit(event, arg) ==
    /\ event \in EventNames /\ arg \in Payloads
    /\ Becomes(emit(Client, event, arg))
    /\ clientOp' = "emit"
    /\ UNCHANGED <<reconnection, terminal, retries, everOpened, serverVars>>

(***************************************************************************)
(* Client: the calls on one ConnectionManager.                             *)
(***************************************************************************)
SetState(s) ==
    /\ s \in ConnectionStates
    /\ Becomes(setState(Client, s))
    /\ clientOp' = "setState"
    /\ UNCHANGED <<reconnection, terminal, retries, everOpened, serverVars>>

OnStateChange(l) ==
    /\ l \in Handlers
    /\ Becomes(onStateChange(Client, l))
    /\ clientOp' = "onStateChange"
    /\ UNCHANGED <<reconnection, terminal, retries, everOpened, serverVars>>

\* the application calls the function onStateChange(l) returned
Unsubscribe(l) ==
    /\ l \in Handlers
    /\ Becomes(unsubscribe(Client, l))
    /\ clientOp' = "unsubscribe"
    /\ UNCHANGED <<reconnection, terminal, retries, everOpened, serverVars>>

\* the run counts at most one attempt beyond the maximum
IncrementReconnectAttempts ==
    /\ reconnectAttempts <= MaxReconnectAttempts
    /\ Becomes(incrementReconnectAttempts(Client))
    /\ clientOp' = "incrementReconnectAttempts"
    /\ UNCHANGED <<reconnection, terminal, retries, everOpened, serverVars>>

ResetReconnectAttempts ==
    /\ Becomes(resetReconnectAttempts(Client))
    /\ clientOp' = "resetReconnectAttempts"
    /\ UNCHANGED <<reconnection, terminal, retries, everOpened, serverVars>>

CanReconnect ==
    /\ Becomes([Client EXCEPT !.returned = canReconnect(Client)])
    /\ clientOp' = "canReconnect"
    /\ UNCHANGED <<reconnection, terminal, retries, everOpened, serverVars>>

Reset ==
    /\ Becomes(reset(Client))
    /\ clientOp' = "reset"
    /\ UNCHANGED <<reconnection, terminal, retries, everOpened, serverVars>>

ClientNext ==
    \/ AppConnect
    \/ AppDisconnect
    \/ AppAuthenticate
    \/ \E i \in 1..MaxTransports : TransportOpen(i)
    \/ \E i \in 1..MaxTransports : TransportError(i)
    \/ \E i \in 1..MaxTransports, reason \in CloseReasons : TransportClose(i, reason)
    \/ \E i \in 1..MaxTransports, uid \in UserIds : ServerAuthenticated(i, uid)
    \/ \E i \in 1..MaxTransports : ServerAuthError(i)
    \/ ReconnectTimerFires

\* the state the constructor leaves: with autoConnect it has called connect()
ClientInit ==
    /\ reconnection \in BOOLEAN
    /\ \E autoConnect \in BOOLEAN :
          LET c0 == [state |-> "disconnected", reconnectAttempts |-> 0,
                     userId |-> Null, reconnectTimer |-> "null",
                     socket |-> NoSid, transports |-> <<>>,
                     published |-> <<>>, sent |-> <<>>, thrown |-> Null,
                     listeners |-> <<>>, events |-> << >>, called |-> <<>>,
                     returned |-> Null, timers |-> 0, timerDelay |-> 0,
                     dropped |-> {}]
              c == IF autoConnect THEN connect(c0) ELSE c0
          IN /\ state = c.state
             /\ reconnectAttempts = c.reconnectAttempts
             /\ userId = c.userId
             /\ reconnectTimer = c.reconnectTimer
             /\ socket = c.socket
             /\ transports = c.transports
             /\ published = c.published
             /\ sent = c.sent
             /\ thrown = c.thrown
             /\ listeners = c.listeners
             /\ events = c.events
             /\ called = c.called
             /\ returned = c.returned
             /\ timers = c.timers
             /\ timerDelay = c.timerDelay
             /\ dropped = c.dropped
    /\ clientOp = "start"
    /\ terminal = FALSE
    /\ retries = 0
    /\ everOpened = FALSE

Init == ServerInit /\ ClientInit

\* the server alone, with presence enabled: the client stays as constructed
\* (autoConnect off)
SpecInit == Init /\ presencePlugin /\ reconnection /\ socket = NoSid
Spec == SpecInit /\ [][Next]_vars

\* the server when the validator only ever returns users with a non-empty id
NamedResults == ValidatorResults \ {""}
NamedNext ==
    \/ \E sid \in SocketIds : OnConnection(sid)
    \/ \E sid \in SocketIds : OnDisconnect(sid)
    \/ \E sid \in SocketIds : OnAuthenticate(sid)
    \/ \E sid \in SocketIds, result \in NamedResults : ValidatorReturns(sid, result)
    \/ \E sid \in SocketIds, to \in UserIds, content \in Contents, uuid \in Uuids :
          OnSendMessage(sid, to, content, uuid)
NamedSpec == SpecInit /\ [][NamedNext]_vars

\* the server's session lifecycle, with or without the presence plugin:
\* connections, handshakes, disconnections and 'authenticated' events sent
\* by peers
PresenceInit == Init /\ reconnection /\ socket = NoSid
PresenceNext ==
    \/ \E sid \in SocketIds : OnConnection(sid)
    \/ \E sid \in SocketIds : OnDisconnect(sid)
    \/ \E sid \in SocketIds : OnAuthenticate(sid)
    \/ \E sid \in SocketIds, result \in ValidatorResults : ValidatorReturns(sid, result)
    \/ \E sid \in SocketIds : OnAuthenticated(sid)
PresenceSpec == PresenceInit /\ [][PresenceNext]_vars

\* the server with its messaging handler: send_message and typing requests
MessagingNext ==
    \/ \E sid \in SocketIds : OnConnection(sid)
    \/ \E sid \in SocketIds : OnDisconnect(sid)
    \/ \E sid \in SocketIds : OnAuthenticate(sid)
    \/ \E sid \in SocketIds, result \in ValidatorResults : ValidatorReturns(sid, result)
    \/ \E sid \in SocketIds, to \in UserIds, content \in Contents, uuid \in Uuids :
          OnSendMessage(sid, to, content, uuid)
    \/ \E sid \in SocketIds, to \in UserIds, event \in TypingEvents :
          OnTyping(sid, to, event)
MessagingSpec == SpecInit /\ [][MessagingNext]_vars

\* one client alone: the server stays as constructed (presence enabled)
ClientSpecInit == Init /\ presencePlugin
ClientSpec == ClientSpecInit /\ [][ClientNext]_vars

\* one client whose application, after constructing it, only authenticates:
\* every connect() is the constructor's or the reconnect timer's
UnattendedNext ==
    \/ AppAuthenticate
    \/ \E i \in 1..MaxTransports : TransportOpen(i)
    \/ \E i \in 1..MaxTransports : TransportError(i)
    \/ \E i \in 1..MaxTransports, reason \in CloseReasons : TransportClose(i, reason)
    \/ \E i \in 1..MaxTransports, uid \in UserIds : ServerAuthenticated(i, uid)
    \/ \E i \in 1..MaxTransports : ServerAuthError(i)
    \/ ReconnectTimerFires
UnattendedSpec == ClientSpecInit /\ [][UnattendedNext]_vars

\* typing indicators on both sides of the wire, one side at a time: the
\* server's messaging handler takes typing requests while the client stays
\* as constructed, or a SocketClient runs while the server stays as
\* constructed
ClientIdle == clientOp = "start" /\ socket = NoSid /\ reconnection
ServerIdle == lastOp.op = "start" /\ presencePlugin
TypingNext ==
    \/ ClientIdle /\ \E sid \in SocketIds : OnConnection(sid)
    \/ ClientIdle /\ \E sid \in SocketIds : OnDisconnect(sid)
    \/ ClientIdle /\ \E sid \in SocketIds : OnAuthenticate(sid)
    \/ ClientIdle /\ \E sid \in SocketIds, result \in ValidatorResults :
                         ValidatorReturns(sid, result)
    \/ ClientIdle /\ \E sid \in SocketIds, to \in UserIds, event \in TypingEvents :
                         OnTyping(sid, to, event)
    \/ ServerIdle /\ AppAuthenticate
    \/ ServerIdle /\ \E to \in UserIds : AppStartTyping(to)
    \/ ServerIdle /\ \E to \in UserIds : AppStopTyping(to)
    \/ ServerIdle /\ \E i \in 1..MaxTransports : TransportOpen(i)
    \/ ServerIdle /\ \E i \in 1..MaxTransports : TransportError(i)
    \/ ServerIdle /\ \E i \in 1..MaxTransports, reason \in CloseReasons :
                         TransportClose(i, reason)
    \/ ServerIdle /\ \E i \in 1..MaxTransports, uid \in UserIds :
                         ServerAuthenticated(i, uid)
    \/ ServerIdle /\ \E i \in 1..MaxTransports : ServerAuthError(i)
    \/ ServerIdle /\ ReconnectTimerFires
TypingSpec == ClientSpecInit /\ [][TypingNext]_vars

\* one client whose application, after constructing it, authenticates, sends
\* messages, asks for the online status of users and disconnects
RequestNext ==
    \/ AppDisconnect
    \/ AppAuthenticate
    \/ \E to \in UserIds, content \in Contents : AppSendMessage(to, content)
    \/ \E userIds \in IdLists : AppGetOnlineStatus(userIds)
    \/ \E i \in 1..MaxTransports : TransportOpen(i)
    \/ \E i \in 1..MaxTransports : TransportError(i)
    \/ \E i \in 1..MaxTransports, reason \in CloseReasons : TransportClose(i, reason)
    \/ \E i \in 1..MaxTransports, uid \in UserIds : ServerAuthenticated(i, uid)
    \/ \E i \in 1..MaxTransports : ServerAuthError(i)
    \/ ReconnectTimerFires
RequestSpec == ClientSpecInit /\ [][RequestNext]_vars

\* online-status requests on both sides of the wire, one side at a time: the
\* server's presence handler takes get_online_status requests while the
\* client stays as constructed, or a SocketClient runs while the server stays
\* as constructed
StatusNext ==
    \/ ClientIdle /\ \E sid \in SocketIds : OnConnection(sid)
    \/ ClientIdle /\ \E sid \in SocketIds : OnDisconnect(sid)
    \/ ClientIdle /\ \E sid \in SocketIds : OnAuthenticate(sid)
    \/ ClientIdle /\ \E sid \in SocketIds, result \in ValidatorResults :
                         ValidatorReturns(sid, result)
    \/ ClientIdle /\ \E sid \in SocketIds, userIds \in IdLists :
                         OnGetOnlineStatus(sid, userIds)
    \/ ServerIdle /\ AppConnect
    \/ ServerIdle /\ AppDisconnect
    \/ ServerIdle /\ AppAuthenticate
    \/ ServerIdle /\ \E userIds \in IdLists : AppGetOnlineStatus(userIds)
    \/ ServerIdle /\ \E i \in 1..MaxTransports : TransportOpen(i)
    \/ ServerIdle /\ \E i \in 1..MaxTransports : TransportError(i)
    \/ ServerIdle /\ \E i \in 1..MaxTransports, reason \in CloseReasons :
                         TransportClose(i, reason)
    \/ ServerIdle /\ \E i \in 1..MaxTransports, uid \in UserIds :
                         ServerAuthenticated(i, uid)
    \/ ServerIdle /\ \E i \in 1..MaxTransports : ServerAuthError(i)
    \/ ServerIdle /\ ReconnectTimerFires
StatusSpec == ClientSpecInit /\ [][StatusNext]_vars

\* one SocketServer from its construction on: the ways to give it an HTTP
\* server, listen(), initialize() and close()
LifecycleInit ==
    /\ ClientInit /\ reconnection /\ socket = NoSid
    /\ connections = << >> /\ userSockets = << >>
    /\ closed = {} /\ pendingAuth = {}
    /\ presencePlugin = TRUE
    /\ emitted = <<>>
    /\ lastOp = Op("start", NoSid, Null, Null)
    /\ \E configPort \in Ports : server = Constructed(configPort)
LifecycleNext ==
    \/ Attach
    \/ AttachToExpress
    \/ CreateStandalone
    \/ \E port \in Ports : Listen(port)
    \/ Initialize
    \/ Close
    \/ \E port \in Ports : CallerListens(port)
    \/ CallerCloses
LifecycleSpec == LifecycleInit /\ [][LifecycleNext]_vars

\* the server's registry alone, called directly
RegistryNext ==
    \/ \E sid \in SocketIds : AddConnection(sid)
    \/ \E sid \in SocketIds, uid \in UserIds : AuthenticateConnection(sid, uid)
    \/ \E sid \in SocketIds : RemoveConnection(sid)
    \/ \E userIds \in IdLists : GetUsersOnlineStatus(userIds)
RegistrySpec == SpecInit /\ [][RegistryNext]_vars

\* one ConnectionManager alone, called directly
MachineInit == ClientSpecInit /\ reconnection /\ socket = NoSid
MachineNext ==
    \/ \E s \in ConnectionStates : SetState(s)
    \/ \E l \in Handlers : OnStateChange(l)
    \/ \E l \in Handlers : Unsubscribe(l)
    \/ IncrementReconnectAttempts
    \/ ResetReconnectAttempts
    \/ CanReconnect
    \/ Reset
MachineSpec == MachineInit /\ [][MachineNext]_vars

\* the callbacks of the client, one registry of callbacks at a time: an
\* EventEmitter is called while the ConnectionManager stays as constructed,
\* or the ConnectionManager is called while the EventEmitter stays as
\* constructed
MachineIdle == listeners = <<>> /\ state = "disconnected" /\ dropped = {}
EmitterIdle == events = << >>
CallbackNext ==
    \/ MachineIdle /\ \E event \in EventNames, h \in Handlers : On(event, h)
    \/ MachineIdle /\ \E event \in EventNames, h \in Handlers : Off(event, h)
    \/ MachineIdle /\ \E event \in EventNames, arg \in Payloads : Emit(event, arg)
    \/ EmitterIdle /\ \E l \in Handlers : OnStateChange(l)
    \/ EmitterIdle /\ \E l \in Handlers : Unsubscribe(l)
    \/ EmitterIdle /\ \E s \in ConnectionStates : SetState(s)
CallbackSpec == MachineInit /\ [][CallbackNext]_vars

(***************************************************************************)
(* Properties of the server.                                               *)
(***************************************************************************)
\* session sid is registered and authenticated as user u
AuthenticatedAs(sid, u) ==
    /\ sid \in DOMAIN connections
    /\ isAuth(connections[sid])
    /\ getUserId(connections[sid]) = u

\* the two events a delivered message produces
Delivery(A, a, B, content, m) ==
    << [Ev(B, "receive_message") EXCEPT !.from = a, !.content = content,
                                        !.messageId = m],
       [Ev(A, "message_delivered") EXCEPT !.messageId = m] >>

\* C1: when session A is authenticated as user a and another session B as user b,
\* a send_message{to: b, content} from A makes the server emit exactly one
\* receive_message, to B, with from = a and that content, and a
\* message_delivered to A with the same messageId.
SendReachesEverySessionOfRecipient ==
    lastOp.op = "send_message" =>
        \A a \in UserIds, B \in DOMAIN connections :
            ( /\ B # lastOp.sid
              /\ AuthenticatedAs(lastOp.sid, a)
              /\ AuthenticatedAs(B, lastOp.arg) )
            => \E m \in Uuids :
                  emitted = Delivery(lastOp.sid, a, B, lastOp.content, m)

\* the error a sender gets for a recipient the user index does not hold
OfflineError(A) ==
    \E m \in Uuids :
        emitted = << [Ev(A, "message_error") EXCEPT
                         !.messageId = m, !.error = "Recipient is offline"] >>

\* C2 (as stated): an authenticated session that sends to a user id with no
\* entry in the user index gets message_error "Recipient is offline" with a
\* generated messageId, and nothing else is emitted.
AuthenticatedSenderGetsOfflineError ==
    ( /\ lastOp.op = "send_message"
      /\ isAuth(connections[lastOp.sid])
      /\ lastOp.arg \notin DOMAIN userSockets )
    => OfflineError(lastOp.sid)

\* C2 (amended): an authenticated session whose user id is not empty, sending
\* to a user id with no entry in the user index, gets message_error
\* "Recipient is offline" with a generated messageId and no receive_message
\* (nor anything else) is emitted to any session.
NamedSenderGetsOfflineError ==
    ( /\ lastOp.op = "send_message"
      /\ isAuth(connections[lastOp.sid])
      /\ getUserId(connections[lastOp.sid]) # Null
      /\ lastOp.arg \notin DOMAIN userSockets )
    => OfflineError(lastOp.sid)

\* C2 witness: a named, authenticated sender has just been told that a
\* recipient without an index entry is offline
OfflineErrorSent ==
    /\ lastOp.op = "send_message"
    /\ isAuth(connections[lastOp.sid])
    /\ getUserId(connections[lastOp.sid]) # Null
    /\ lastOp.arg \notin DOMAIN userSockets
    /\ OfflineError(lastOp.sid)

\* C3: registry invariant R1: every entry userId -> sid of the user index
\* refers to a session registered at sid whose user.id is that userId.
R1 ==
    \A u \in DOMAIN userSockets :
        /\ userSockets[u] \in DOMAIN connections
        /\ connections[userSockets[u]].user.id = u

\* C4: registry invariant R2: once remove(sid) has returned, no entry of the
\* user index points at sid.
R2 == \A u \in DOMAIN userSockets : userSockets[u] \notin closed

\* C5: no two registered sessions are authenticated with the same user id
\* at the same time.
OneSessionPerUser ==
    \A s1, s2 \in DOMAIN connections :
        \A u \in UserIds :
            (AuthenticatedAs(s1, u) /\ AuthenticatedAs(s2, u)) => s1 = s2

\* C6: last authentication wins (R3): with s1 registered and authenticated as
\* user u, authenticate(s2, u) on another registered session s2 leaves
\* getByUserId(u) returning s2, while s1 stays registered with its Connection
\* unchanged.
LastAuthenticationWins ==
    [][ \A s1 \in DOMAIN connections :
          ( /\ lastOp'.op = "validated"
            /\ lastOp'.arg \in UserIds
            /\ lastOp'.sid \in DOMAIN connections
            /\ s1 # lastOp'.sid
            /\ isAuth(connections[s1])
            /\ connections[s1].user.id = lastOp'.arg )
          => /\ getConnectionByUserId(connections', userSockets', lastOp'.arg)
                   = lastOp'.sid
             /\ s1 \in DOMAIN connections'
             /\ connections'[s1] = connections[s1] ]_vars

\* C6 witness: s2 has just authenticated with the user id that another
\* registered session s1 is authenticated with
SecondSessionAuthenticated ==
    /\ lastOp.op = "validated"
    /\ lastOp.arg \in UserIds
    /\ lastOp.sid \in DOMAIN connections
    /\ \E s1 \in DOMAIN connections :
          /\ s1 # lastOp.sid
          /\ isAuth(connections[s1])
          /\ connections[s1].user.id = lastOp.arg
    /\ getConnectionByUserId(connections, userSockets, lastOp.arg) = lastOp.sid

\* C7: authenticate(sid, user) on a registered sid immediately followed by
\* remove(sid) leaves isOnline(user.id) false and getByUserId(user.id)
\* undefined.
AuthenticateThenRemoveIsOffline ==
    [][ ( /\ lastOp.op = "validated"
          /\ lastOp.arg \in UserIds
          /\ lastOp.sid \in DOMAIN connections
          /\ lastOp'.op = "disconnect"
          /\ lastOp'.sid = lastOp.sid )
        => /\ ~isUserOnline(userSockets', lastOp.arg)
           /\ getConnectionByUserId(connections', userSockets', lastOp.arg)
                 = NoSid ]_vars

\* the events named `event` among es, in order
EventsNamed(es, event) == SelectSeq(es, LAMBDA e : e.event = event)

\* es holds exactly one copy of ev for every registered session, and nothing else
OneToEverySession(es, conns, event, uid) ==
    /\ Len(es) = Cardinality(DOMAIN conns)
    /\ \A s \in DOMAIN conns :
          \E i \in 1..Len(es) : es[i] = [Ev(s, event) EXCEPT !.userId = uid]

\* C11: when the authentication handler succeeds for a registered session
\* (presence enabled), the server broadcasts user_online with the session's
\* user id: every connected session is sent user_online{userId} as a result
\* of that success.
SuccessBroadcastsOnline ==
    ( /\ lastOp.op = "validated"
      /\ lastOp.arg \in UserIds
      /\ lastOp.sid \in DOMAIN connections
      /\ getUserId(connections[lastOp.sid]) # Null
      /\ presencePlugin )
    => OneToEverySession(EventsNamed(emitted, "user_online"), connections,
                         "user_online", lastOp.arg)

\* C12: when the transport of a session disconnects, the session is removed
\* from the registry, and user_offline{userId} goes to every session still
\* connected if and only if the removed session had a user id and presence is
\* enabled; a session that never authenticated produces no user_offline.
DisconnectBroadcastsOffline ==
    [][ lastOp'.op = "disconnect" =>
          LET sid == lastOp'.sid
              user == connections[sid].user
              offline == EventsNamed(emitted', "user_offline")
          IN /\ sid \notin DOMAIN connections'
             /\ IF user # NoUser /\ presencePlugin
                THEN OneToEverySession(offline, connections', "user_offline",
                                       user.id)
                ELSE offline = <<>> ]_vars

\* C13: a failed authentication never authenticates and always closes the
\* session: when the validator returns null the session is sent auth_error
\* "Invalid authentication token", when it throws auth_error "Authentication
\* failed"; in both cases the session is disconnected and removed, no
\* authenticated response is emitted, and the request authenticates nothing
\* in the registry (no Connection gains a user, no index entry is written).
FailedAuthClosesSession ==
    [][ ( /\ lastOp'.op = "validated"
          /\ lastOp'.arg \in {ValidatorNull, ValidatorThrows} )
        => LET sid == lastOp'.sid
               msg == IF lastOp'.arg = ValidatorNull
                      THEN "Invalid authentication token"
                      ELSE "Authentication failed"
           IN /\ sid \notin DOMAIN connections'
              /\ sid \in DOMAIN connections =>
                    /\ Len(emitted') >= 1
                    /\ emitted'[1] = [Ev(sid, "auth_error") EXCEPT !.message = msg]
                    /\ sid \in closed'
              /\ EventsNamed(emitted', "authenticated") = <<>>
              /\ \A s \in DOMAIN connections' :
                    s \in DOMAIN connections /\ connections'[s] = connections[s]
              /\ \A u \in DOMAIN userSockets' :
                    u \in DOMAIN userSockets /\ userSockets'[u] = userSockets[u]
      ]_vars

\* C13 witness: a registered session has just been refused and closed
FailedAuthClosedSession ==
    /\ lastOp.op = "validated"
    /\ lastOp.arg \in {ValidatorNull, ValidatorThrows}
    /\ lastOp.sid \in closed
    /\ EventsNamed(emitted, "auth_error") # <<>>

\* C14: on a successful validator result for a still-registered session sid,
\* the user is stamped with the session id and connectedAt, the session is
\* authenticated with that user, getByUserId(user.id) is that session, and
\* authenticated{userId, socketId} is emitted to that session and nothing to
\* any other.
SuccessAuthenticatesSession ==
    ( /\ lastOp.op = "validated"
      /\ lastOp.arg \in UserIds
      /\ lastOp.sid \in DOMAIN connections )
    => /\ isAuth(connections[lastOp.sid])
       /\ connections[lastOp.sid].user =
             [id |-> lastOp.arg, socketId |-> lastOp.sid, connectedAt |-> Now]
       /\ getConnectionByUserId(connections, userSockets, lastOp.arg) = lastOp.sid
       /\ emitted = << [Ev(lastOp.sid, "authenticated") EXCEPT
                           !.userId = lastOp.arg, !.socketId = lastOp.sid] >>

\* C14 witness: a registered session has just been authenticated while
\* another session is registered
SessionAuthenticated ==
    /\ lastOp.op = "validated"
    /\ lastOp.arg \in UserIds
    /\ lastOp.sid \in DOMAIN connections
    /\ isAuth(connections[lastOp.sid])
    /\ Cardinality(DOMAIN connections) > 1

\* the events that deliver something to a recipient or confirm a delivery
DeliveryEvents ==
    {"receive_message", "message_delivered", "typing_start", "typing_stop"}

\* the session whose request the last step processed was registered and
\* authenticated when the request was processed
SenderAuthenticated ==
    /\ lastOp.sid \in DOMAIN connections
    /\ isAuth(connections[lastOp.sid])

\* C15: authentication precedes messaging: a send_message, typing_start or
\* typing_stop request from a session that is not registered and
\* authenticated emits no receive_message, message_delivered, typing_start or
\* typing_stop, and an unauthenticated send_message yields only
\* message_error "Not authenticated" to the sender.
UnauthenticatedRequestsDeliverNothing ==
    ( /\ lastOp.op \in {"send_message"} \cup TypingEvents
      /\ ~SenderAuthenticated )
    => /\ \A i \in 1..Len(emitted) : emitted[i].event \notin DeliveryEvents
       /\ lastOp.op = "send_message" =>
             emitted = << [Ev(lastOp.sid, "message_error") EXCEPT
                              !.error = "Not authenticated"] >>

\* C15 witness: an unauthenticated session has just sent a request addressed
\* to a user who is online
UnauthenticatedRequestToOnlineUser ==
    /\ lastOp.op \in {"send_message"} \cup TypingEvents
    /\ ~SenderAuthenticated
    /\ getConnectionByUserId(connections, userSockets, lastOp.arg) # NoSid
    /\ \A i \in 1..Len(emitted) : emitted[i].event \notin DeliveryEvents

\* C16: typing indicators fail silently end to end: a typing request of a
\* session that is not authenticated, or addressed to a user who is offline,
\* makes the server emit nothing to any session; startTyping / stopTyping on
\* a client that is not authenticated put nothing on the wire, publish
\* nothing and throw nothing.
TypingFailsSilently ==
    /\ ( /\ lastOp.op \in TypingEvents
         /\ \/ ~SenderAuthenticated
            \/ ~isUserOnline(userSockets, lastOp.arg) )
       => emitted = <<>>
    /\ ( /\ clientOp \in {"startTyping", "stopTyping"}
         /\ ~isAuthenticated(Client) )
       => (sent = <<>> /\ published = <<>> /\ thrown = Null)

\* C16 witness: an authenticated session with a user id has just sent a
\* typing request addressed to a user who is offline
TypingToOfflineUser ==
    /\ lastOp.op \in TypingEvents
    /\ SenderAuthenticated
    /\ getUserId(connections[lastOp.sid]) # Null
    /\ ~isUserOnline(userSockets, lastOp.arg)
    /\ emitted = <<>>

(***************************************************************************)
(* Properties of the client.                                               *)
(***************************************************************************)
\* C8: the reconnect-attempt counter never exceeds reconnectionAttempts:
\* once it has reached the maximum no further reconnect is scheduled,
\* whether a close or an error asks for it.
AttemptsNeverExceedMax == reconnectAttempts <= MaxReconnectAttempts

\* the transport opened last has failed or closed
LatestTransportDown ==
    /\ Len(transports) > 0
    /\ transports[Len(transports)].st = "closed"

\* C9: with reconnection enabled and every connection attempt failing, the
\* client retries at most reconnectionAttempts times, and once the last of
\* these retries has failed it is at rest: no reconnect timer is pending and
\* the state is Disconnected.
FailingClientComesToRest ==
    (reconnection /\ ~everOpened) =>
        /\ retries <= MaxReconnectAttempts
        /\ (retries = MaxReconnectAttempts /\ LatestTransportDown)
              => (reconnectTimer # "pending" /\ state = "disconnected")

\* C10: disconnect() is terminal: it leaves no pending reconnect timer, no
\* current transport, state Disconnected, attempt counter 0 and no cached
\* user id; and until the application calls connect() again no reconnect
\* timer is scheduled and no new transport is opened.
DisconnectIsTerminal ==
    [][ /\ clientOp' = "disconnect" =>
              /\ reconnectTimer' = "null"
              /\ socket' = NoSid
              /\ state' = "disconnected"
              /\ reconnectAttempts' = 0
              /\ userId' = Null
        /\ (terminal /\ terminal') =>
              /\ reconnectTimer' # "pending"
              /\ Len(transports') = Len(transports) ]_vars

\* the transports of the client that are opening or open, listeners attached
LiveTransports ==
    {i \in 1..Len(transports) : transports[i].st \in {"opening", "open"}}

\* C17: the client owns one underlying transport connection: at any time at
\* most one transport it created is open or opening with its listeners
\* attached.
OneLiveTransport == Cardinality(LiveTransports) <= 1

\* C18: connect() is idempotent when already connected: called while the
\* client is connected (the state machine says so and a transport of the
\* client is open) it changes neither the state, the attempt counter nor the
\* transport and opens nothing; otherwise it sets the state to Connecting and
\* opens a transport.
ConnectIsIdempotentWhenConnected ==
    [][ clientOp' = "connect" =>
          IF isConnected(Client) /\ (\E i \in LiveTransports : transports[i].st = "open")
          THEN /\ state' = state
               /\ reconnectAttempts' = reconnectAttempts
               /\ socket' = socket
               /\ transports' = transports
          ELSE /\ state' = "connecting"
               /\ Len(transports') = Len(transports) + 1 ]_vars

\* a reconnect was scheduled by the step
ReconnectScheduled ==
    /\ reconnectTimer' = "pending"
    /\ reconnectAttempts' = reconnectAttempts + 1
    /\ state' = "reconnecting"

\* C19: on a transport close with a reason the client sets state
\* Disconnected, clears the cached user id and publishes disconnect(reason);
\* a reconnect is then scheduled if and only if reconnection is enabled, the
\* reason is not the client-initiated one and canReconnect() is true.  The
\* client-initiated close is the one disconnect() causes on a connected
\* socket.
CloseSchedulesReconnectIfAllowed ==
    [][ /\ clientOp' = "close" =>
              \E reason \in CloseReasons :
                 /\ published' = << [event |-> "disconnect", arg |-> reason] >>
                 /\ userId' = Null
                 /\ IF reconnection /\ reason # "io client disconnect"
                                    /\ canReconnect(Client)
                    THEN ReconnectScheduled
                    ELSE /\ state' = "disconnected"
                         /\ reconnectAttempts' = reconnectAttempts
                         /\ reconnectTimer' = reconnectTimer
        /\ (clientOp' = "disconnect" /\ socketConnected(Client)) =>
              /\ published' = << [event |-> "disconnect",
                                  arg |-> "io client disconnect"] >>
              /\ userId' = Null
              /\ state' = "disconnected"
              /\ reconnectTimer' # "pending" ]_vars

\* C19 witness: the transport of an authenticated client has just closed and
\* a reconnect is scheduled
CloseScheduledReconnect ==
    /\ clientOp = "close"
    /\ published # <<>>
    /\ published[1].event = "disconnect"
    /\ userId = Null
    /\ state = "reconnecting"
    /\ reconnectTimer = "pending"

\* C20: when the client receives auth_error, its connection state becomes
\* Error.
AuthErrorSetsErrorState == clientOp = "auth_error" => state = "error"

(***************************************************************************)
(* Properties of the client's calls.                                       *)
(***************************************************************************)
\* the last step was a call whose precondition did not hold
PreconditionFailed ==
    \/ clientOp' = "authenticate" /\ ~socketConnected(Client)
    \/ clientOp' = "sendMessage" /\ ~isAuthenticated(Client)
    \/ clientOp' = "getOnlineStatus" /\ ~isConnected(Client)

\* C21: authenticate without a connected transport, sendMessage without
\* isAuthenticated() and getOnlineStatus without isConnected() fail with an
\* error to the caller, put nothing on the transport, and leave the state, the
\* attempt counter and the cached user id as they were.
PreconditionErrorsChangeNothing ==
    [][ PreconditionFailed
          => /\ thrown' # Null
             /\ sent' = <<>>
             /\ state' = state
             /\ reconnectAttempts' = reconnectAttempts
             /\ userId' = userId ]_vars

\* sendMessage was refused on a connected, not yet authenticated client
SendMessageRefused ==
    /\ clientOp = "sendMessage"
    /\ thrown = "Not authenticated. Call authenticate() first."
    /\ state = "connected"

(***************************************************************************)
(* Properties of the client's ConnectionManager.                           *)
(***************************************************************************)
\* the calls made to listener l during the last step
CallsTo(l) == SelectSeq(called, LAMBDA e : e.handler = l)

\* C22: every setState call whose value differs from the current state calls
\* each registered listener exactly once, with the new value; a call that
\* repeats the current state calls no listener.
ListenersCalledOncePerChange ==
    [][ clientOp' = "setState"
          => \A l \in Handlers :
                CallsTo(l)' =
                   IF state' # state /\ l \in Range(listeners)
                   THEN << [handler |-> l, event |-> "state", arg |-> state'] >>
                   ELSE <<>> ]_vars

\* a state change has just called two listeners
TwoListenersCalled == clientOp = "setState" /\ Len(called) >= 2

\* C23: the counter grows only by incrementReconnectAttempts, by exactly 1
\* and returning the new count; it returns to 0 only by
\* resetReconnectAttempts or reset; canReconnect() is true exactly when the
\* counter is below the maximum.
CounterMovesOnlyByItsCalls ==
    [][ /\ reconnectAttempts' > reconnectAttempts
           => clientOp' = "incrementReconnectAttempts"
        /\ clientOp' = "incrementReconnectAttempts"
           => /\ reconnectAttempts' = reconnectAttempts + 1
              /\ returned' = reconnectAttempts'
        /\ reconnectAttempts' < reconnectAttempts
           => /\ reconnectAttempts' = 0
              /\ clientOp' \in {"resetReconnectAttempts", "reset"}
        /\ clientOp' \in {"resetReconnectAttempts", "reset"}
           => reconnectAttempts' = 0
        /\ clientOp' = "canReconnect"
           => returned' = (reconnectAttempts < MaxReconnectAttempts) ]_vars

\* canReconnect() has just answered false with the counter at the maximum
CannotReconnectAtMax ==
    /\ clientOp = "canReconnect"
    /\ reconnectAttempts = MaxReconnectAttempts
    /\ returned = FALSE

\* C29: reset() sets the state to Disconnected and the counter to 0 and
\* removes every listener: no listener registered before the reset, and not
\* registered again since, is called by a later setState.
ResetDropsListeners ==
    [][ /\ clientOp' = "reset"
           => /\ state' = "disconnected"
              /\ reconnectAttempts' = 0
              /\ listeners' = <<>>
              /\ called' = <<>>
        /\ \A l \in dropped' : CallsTo(l)' = <<>> ]_vars

\* a state change after a reset that removed listeners
StateChangedAfterReset ==
    /\ clientOp = "setState"
    /\ dropped # {}
    /\ state # "disconnected"

BatchStatusIsPerIdAndUnordered ==
    lastOp.op = "getUsersOnlineStatus"
      => /\ DOMAIN returned = Range(lastOp.arg)
         /\ \A u \in Range(lastOp.arg) :
               returned[u] = isUserOnline(userSockets, u)
         /\ \A other \in IdLists :
               Range(other) = Range(lastOp.arg)
                 => getUsersOnlineStatus(userSockets, other) = returned

\* the status of an online and of an unknown user was asked for, the unknown
\* one first
MixedStatusAsked ==
    /\ lastOp.op = "getUsersOnlineStatus"
    /\ lastOp.arg = <<"bob", "alice">>
    /\ DOMAIN userSockets = {"alice"}

\* the online_status event that answers a request of session sid for userIds
OnlineStatusReply(sid, userIds) ==
    [Ev(sid, "online_status") EXCEPT
        !.statuses = [u \in Range(userIds) |-> isUserOnline(userSockets, u)]]

\* C26: a get_online_status request is answered whether or not the session
\* is authenticated, to the requester alone, with online_status carrying the
\* batch status of the requested ids; the client's getOnlineStatus puts the
\* request on the transport whenever isConnected() holds.
StatusRequestNeedsNoAuthentication ==
    /\ lastOp.op = "get_online_status"
         => emitted = << OnlineStatusReply(lastOp.sid, lastOp.arg) >>
    /\ (clientOp = "getOnlineStatus" /\ isConnected(Client))
         => /\ thrown = Null
            /\ Len(sent) = 1
            /\ sent[1].event = "get_online_status"

(***************************************************************************)
(* Properties of the client's callbacks.                                   *)
(***************************************************************************)
\* the handlers that were called during the last step, in the order of the
\* calls
CalledHandlers == [i \in 1..Len(called) |-> called[i].handler]

\* C27: when a handler raises an error during a publish, every other handler
\* subscribed to that event is invoked too, and when a listener raises one
\* during a state change, every other registered listener is notified too;
\* the error does not reach the caller of publish / setState.
RaisingCallbackStopsNoOther ==
    [][ /\ (clientOp' = "emit" /\ "thrower" \in Range(CalledHandlers'))
           => /\ thrown' = Null
              /\ \A h \in Range(handlersOf(Client, published'[1].event)) :
                    h \in Range(CalledHandlers')
        /\ (clientOp' = "setState" /\ "thrower" \in Range(CalledHandlers'))
           => /\ thrown' = Null
              /\ \A l \in Range(listeners) : l \in Range(CalledHandlers') ]_vars

\* C28: a publish invokes the handlers subscribed to that event name, in the
\* order in which they were subscribed, each with the published argument,
\* and no handler of another event name.
PublishCallsInSubscriptionOrder ==
    [][ clientOp' = "emit"
          => LET event == published'[1].event
                 hs == handlersOf(Client, event)
             IN called' = [i \in 1..Len(hs) |->
                              [handler |-> hs[i], event |-> event,
                               arg |-> published'[1].arg]] ]_vars

(***************************************************************************)
(* Properties of the SocketServer's HTTP server.                           *)
(***************************************************************************)
\* C30: after attachToExpress(app) the SocketServer owns the HTTP server it
\* created: listen(port) leaves it listening and close() leaves it closed;
\* after attach(httpServer), listen() and close() leave the caller's HTTP
\* server as it is.
OwnsTheExpressServerOnly ==
    [][ /\ (lastOp'.op = "listen" /\ server.httpServer = "express")
           => server'.http = "listening"
        /\ (lastOp'.op = "close" /\ server.httpServer = "express")
           => server'.http = "closed"
        /\ (lastOp'.op \in {"listen", "close"} /\ server.httpServer = "callers")
           => server'.http = server.http ]_vars

\* C39: a publish during which a handler unsubscribes itself still calls
\* every handler that was subscribed when the publish began: as many calls
\* are made as the event had handlers, none is passed over.
UnsubscribingHandlerSkipsNoOther ==
    [][ (clientOp' = "emit" /\ "once" \in Range(CalledHandlers'))
          => /\ Len(called') = Len(handlersOf(Client, published'[1].event))
             /\ \A h \in Range(handlersOf(Client, published'[1].event)) :
                   h \in Range(CalledHandlers') ]_vars

(***************************************************************************)
(* Properties of the client's identity.                                    *)
(***************************************************************************)
\* C38: in every reachable state of the client the cached user id is set
\* exactly when the state is Authenticated: getUserId() is non-null if and
\* only if isAuthenticated() is true.
UserIdIffAuthenticated == (userId # Null) <=> isAuthenticated(Client)

\* C32: when a transport opens the client sets the state Connected, resets
\* the attempt counter to 0 and publishes connect; the reconnect scheduled
\* next, from the counter at 0, is attempt 1 with the delay reconnectionDelay.
OpenResetsBackoff ==
    [][ /\ clientOp' = "open"
           => /\ state' = "connected"
              /\ reconnectAttempts' = 0
              /\ published' = << [event |-> "connect", arg |-> Null] >>
        /\ (reconnectAttempts = 0 /\ reconnectAttempts' # 0)
           => /\ reconnectAttempts' = 1
              /\ timerDelay' = ReconnectionDelay ]_vars

\* a transport that opened after a reconnect has closed, and the reconnect
\* scheduled for it is attempt 1 again
FirstAttemptAfterReconnection ==
    /\ clientOp = "close"
    /\ Len(transports) >= 2
    /\ transports[Len(transports)].st = "closed"
    /\ reconnectAttempts = 1
    /\ timerDelay = ReconnectionDelay

(***************************************************************************)
(* Properties of the server's handshake across its suspension.             *)
(***************************************************************************)
\* C33: when the validator succeeds for a session that disconnected, and was
\* removed from the registry, while the call was in flight, the registry is
\* left as it is: no user id entry is made and the session is not added back.
LateSuccessLeavesRegistry ==
    [][ ( /\ lastOp'.op = "validated"
          /\ lastOp'.arg \in UserIds
          /\ lastOp'.sid \notin DOMAIN connections )
          => /\ connections' = connections
             /\ userSockets' = userSockets ]_vars

\* the validator has returned a user for a session that is gone
ValidatedAfterDisconnect ==
    /\ lastOp.op = "validated"
    /\ lastOp.arg \in UserIds
    /\ lastOp.sid \in closed

\* C31: events of other sessions that interleave with a suspended
\* authenticate request touch registry keys other than the ones the suspended
\* handler writes when it resumes.  Checked on adjacent steps: when the
\* handshake of one session completes while the request of another is
\* suspended, and that other resumes next, the two write different
\* userSockets keys.
ConcurrentHandshakesWriteDisjointKeys ==
    [][ ( /\ lastOp.op = "validated"
          /\ lastOp.arg \in UserIds
          /\ lastOp.sid \in DOMAIN connections
          /\ lastOp'.op = "validated"
          /\ lastOp'.arg \in UserIds
          /\ lastOp'.sid \in DOMAIN connections
          /\ lastOp'.sid # lastOp.sid
          /\ lastOp'.sid \in pendingAuth )
          => lastOp'.arg # lastOp.arg ]_vars

\* C34: online status agrees with the live sessions: a user id is reported
\* online exactly when some session in the registry is authenticated with it.
OnlineIffAuthenticatedSessionLive ==
    \A u \in UserIds :
        isUserOnline(userSockets, u)
            <=> \E sid \in DOMAIN connections : AuthenticatedAs(sid, u)

(***************************************************************************)
(* Properties of the deliveries.                                           *)
(***************************************************************************)
\* the events that carry something from a sender to a recipient
RelayedEvents == {"receive_message"} \cup TypingEvents

\* C35: a message is delivered only to its addressee: every receive_message,
\* typing_start or typing_stop emitted for a request addressed to user id X
\* goes to a session that is authenticated as X at that moment.
DeliveredOnlyToAddressee ==
    lastOp.op \in {"send_message"} \cup TypingEvents =>
        \A i \in 1..Len(emitted) :
            emitted[i].event \in RelayedEvents
                => AuthenticatedAs(emitted[i].to, lastOp.arg)

\* C36: the from field of every receive_message, typing_start and typing_stop
\* emitted is the user id under which the requesting session is authenticated
\* when the request is processed, whatever the request holds.
FromIsTheSendersIdentity ==
    lastOp.op \in {"send_message"} \cup TypingEvents =>
        \A i \in 1..Len(emitted) :
            emitted[i].event \in RelayedEvents
                => AuthenticatedAs(lastOp.sid, emitted[i].from)

\* a message has been relayed to a user id other than the sender's
RelayedToAnotherUser ==
    /\ lastOp.op = "send_message"
    /\ \E i \in 1..Len(emitted) :
          /\ emitted[i].event = "receive_message"
          /\ emitted[i].from # lastOp.arg

\* the responses the last step sent to the requesting session
Responses ==
    SelectSeq(emitted, LAMBDA e : /\ e.to = lastOp.sid
                                  /\ e.event \in {"message_delivered",
                                                  "message_error"})

\* C37: every send_message request processed gets exactly one response to
\* the sender, a message_delivered or a message_error, and a receive_message
\* is emitted, once, exactly when the response is message_delivered.
OneResponsePerSendMessage ==
    lastOp.op = "send_message" =>
        /\ Len(Responses) = 1
        /\ Len(EventsNamed(emitted, "message_delivered"))
             + Len(EventsNamed(emitted, "message_error")) = 1
        /\ Len(EventsNamed(emitted, "receive_message"))
             = Len(EventsNamed(emitted, "message_delivered"))

\* a send_message has been answered with a confirmation, and one
\* receive_message went out with it
DeliveredWithOneReceive ==
    /\ lastOp.op = "send_message"
    /\ Len(EventsNamed(emitted, "message_delivered")) = 1
    /\ Len(EventsNamed(emitted, "receive_message")) = 1
    /\ Len(emitted) = 2


====
